---- MODULE Spec2Model ----
(***************************************************************************)
(* photo-grid-cli: the directory scan (fileSearch.ts), the date parse and  *)
(* sort (prompts.ts), the montage invocation (montageBuilder.ts) and the   *)
(* runCli pipeline that chains them (prompts.ts, index.ts).                *)
(*                                                                         *)
(* Strings are sequences of one-character strings, so that basename,       *)
(* slice, toLowerCase, the regular expression and parseInt are computed,   *)
(* not assumed.                                                            *)
(***************************************************************************)
EXTENDS Integers, Sequences, FiniteSets, TLC

VARIABLES
    pc,               \* position of runCli
    tz,               \* the process's local time zone (environment)
    rootStatus,       \* what workingDir is on disk: "dir", "missing", "file"
    tree,             \* files under workingDir, in fast-glob's traversal order
    workingDir,       \* prompts.ts:22,41
    extensions,       \* prompts.ts:45
    foundImages,      \* prompts.ts:65
    duplicates,       \* fileSearch.ts:36, the paths reported as skipped
    sortedFiles,      \* prompts.ts:75
    earliestDate,     \* prompts.ts:75
    latestDate,       \* prompts.ts:75
    numberOfDays,     \* prompts.ts:77
    imagesPerRowNum,  \* prompts.ts:99
    chosenResolution, \* prompts.ts:105
    outputFile,       \* prompts.ts:132
    spawnCount,       \* number of child processes spawned (montageBuilder.ts:49)
    spawnArgs,        \* the argument list of the spawned process
    child,            \* which events the child process has emitted
    firstEvent,       \* the first event the child emitted
    promise,          \* the promise runCommand returned (montageBuilder.ts:48)
    settleCalls,      \* calls of resolve/reject made by the two listeners
    log,              \* console output, in order
    calls,            \* the pipeline stages called, in order
    exitStatus        \* the process's exit status

vars == <<pc, tz, rootStatus, tree, workingDir, extensions, foundImages,
          duplicates, sortedFiles, earliestDate, latestDate, numberOfDays,
          imagesPerRowNum, chosenResolution, outputFile, spawnCount,
          spawnArgs, child, firstEvent, promise, settleCalls, log, calls,
          exitStatus>>

----------------------------------------------------------------------------
(* Characters and strings                                                  *)

Digits == <<"0", "1", "2", "3", "4", "5", "6", "7", "8", "9">>
Uppers == <<"A", "B", "C", "D", "E", "F", "G", "H", "I", "J", "K", "L", "M",
            "N", "O", "P", "Q", "R", "S", "T", "U", "V", "W", "X", "Y", "Z">>
Lowers == <<"a", "b", "c", "d", "e", "f", "g", "h", "i", "j", "k", "l", "m",
            "n", "o", "p", "q", "r", "s", "t", "u", "v", "w", "x", "y", "z">>

DigitSet == {Digits[i] : i \in DOMAIN Digits}
UpperSet == {Uppers[i] : i \in DOMAIN Uppers}

IsDigit(c) == c \in DigitSet

DigitValues == [c \in DigitSet |-> (CHOOSE i \in DOMAIN Digits : Digits[i] = c) - 1]
DigitVal(c) == DigitValues[c]

\* String.prototype.toLowerCase, one character
LowerOfUpper == [c \in UpperSet |-> Lowers[CHOOSE i \in DOMAIN Uppers : Uppers[i] = c]]
LowerChar(c) == IF c \in UpperSet THEN LowerOfUpper[c] ELSE c

\* String.prototype.toLowerCase
ToLowerCase(s) == [i \in DOMAIN s |-> LowerChar(s[i])]

\* String.prototype.slice(from, to) with 0-based from (inclusive) and to
\* (exclusive), both clamped to the string
Slice(s, from, to) ==
    LET hi == IF to > Len(s) THEN Len(s) ELSE to
    IN  IF from >= hi THEN <<>> ELSE SubSeq(s, from + 1, hi)

EndsWith(s, suffix) ==
    /\ Len(s) >= Len(suffix)
    /\ SubSeq(s, Len(s) - Len(suffix) + 1, Len(s)) = suffix

\* path.basename: what follows the last "/"
Basename(p) ==
    LET slashes == {i \in DOMAIN p : p[i] = "/"}
    IN  IF slashes = {} THEN p
        ELSE SubSeq(p, (CHOOSE i \in slashes : \A j \in slashes : j <= i) + 1, Len(p))

\* path.resolve(dir, name) for an absolute dir and a plain file name
Resolve(dir, name) == dir \o <<"/">> \o name

\* the decimal digits of a non-negative integer, as a template literal
\* `${n}` prints them
RECURSIVE NumToString(_)
NumToString(n) ==
    IF n < 10 THEN <<Digits[n + 1]>>
    ELSE NumToString(n \div 10) \o <<Digits[(n % 10) + 1]>>

\* parseInt(s, 10) on a string without sign or white space: the value of
\* the longest prefix of decimal digits, NaN when there is none
NaN == [nan |-> TRUE, n |-> 0]
Num(n) == [nan |-> FALSE, n |-> n]

RECURSIVE DigitsValue(_)
DigitsValue(s) ==
    IF s = <<>> THEN 0
    ELSE 10 * DigitsValue(SubSeq(s, 1, Len(s) - 1)) + DigitVal(s[Len(s)])

DigitPrefixLen(s) ==
    IF \A i \in DOMAIN s : IsDigit(s[i]) THEN Len(s)
    ELSE (CHOOSE i \in DOMAIN s : ~IsDigit(s[i]) /\ \A j \in 1..(i - 1) : IsDigit(s[j])) - 1

ParseInt(s) ==
    IF DigitPrefixLen(s) = 0 THEN NaN
    ELSE Num(DigitsValue(SubSeq(s, 1, DigitPrefixLen(s))))

----------------------------------------------------------------------------
(* fileSearch.ts                                                           *)

DotJpg  == <<".", "j", "p", "g">>
DotJpeg == <<".", "j", "p", "e", "g">>
DotPng  == <<".", "p", "n", "g">>

\* the checkbox choices of prompts.ts:49-53
ExtensionChoices == {DotJpg, DotJpeg, DotPng}

\* the alternatives of the regular expression's group (jpg|jpeg|png)
RegexExtensions == {DotJpg, DotJpeg, DotPng}

\* a segment of the relative path `rel` (a directory on the way, or the
\* basename) starts with a dot
HasDotSegment(rel) ==
    \E i \in DOMAIN rel :
        /\ rel[i] = "."
        /\ (i = 1 \/ rel[i - 1] = "/")

\* The glob pattern `**/*${ext}` under caseSensitiveMatch: false and the
\* default dot: false, applied to a file's path relative to cwd: a file at
\* any depth whose basename ends in ext, whatever the case.  Under
\* dot: false neither `**` nor `*` matches a segment that starts with a
\* dot, so a dot file is not matched and a dot directory is not entered.
GlobMatch(rel, ext) ==
    LET base == Basename(rel)
    IN  /\ base # <<>>
        /\ ~HasDotSegment(rel)
        /\ EndsWith(ToLowerCase(base), ToLowerCase(ext))

\* What is on disk at a directory path: status is "dir", "missing" or
\* "file"; files are the paths of the files below it, relative to it, in
\* the order in which fast-glob's walk meets them.
\*
\* fg(patterns, options) with cwd: directory and absolute: true: the files
\* of the tree that match one of the patterns, each once, as absolute
\* paths, in traversal order.  fast-glob ignores ENOENT (a missing cwd
\* gives no entries) and fails on any other error of the walk (ENOTDIR for
\* a cwd that is a file).
Fg(directory, exts, disk) ==
    CASE disk.status = "dir" ->
           LET hits == SelectSeq(disk.files, LAMBDA f : \E e \in exts : GlobMatch(f, e))
           IN  [ok |-> TRUE, error |-> "",
                files |-> [i \in DOMAIN hits |-> Resolve(directory, hits[i])]]
      [] disk.status = "missing" -> [ok |-> TRUE, error |-> "", files |-> <<>>]
      [] OTHER -> [ok |-> FALSE, error |-> "ENOTDIR", files |-> <<>>]

\* /^[0-9]{8}.*\.(jpg|jpeg|png)$/i  (no name of the model holds a line break)
DatePrefixLen == 8

\* A faulty variant of DateRegexTest: /^[0-9]{7}.*\.(jpg|jpeg|png)$/i
DateRegexTestSevenDigits(base) ==
    /\ Len(base) >= DatePrefixLen - 1
    /\ \A i \in 1..(DatePrefixLen - 1) : IsDigit(base[i])
    /\ \E e \in RegexExtensions :
          /\ Len(base) - Len(e) >= DatePrefixLen - 1
          /\ EndsWith(ToLowerCase(base), e)

DateRegexTest(base) ==
    /\ Len(base) >= DatePrefixLen
    /\ \A i \in 1..DatePrefixLen : IsDigit(base[i])
    /\ \E e \in RegexExtensions :
          /\ Len(base) - Len(e) >= DatePrefixLen
          /\ EndsWith(ToLowerCase(base), e)

\* fileSearch.ts:28-31
MatchedFiles(allFoundFiles) ==
    SelectSeq(allFoundFiles, LAMBDA f : DateRegexTest(Basename(f)))

\* seenBasenames is a Map: its entries in insertion order
MapHas(seen, key) == \E i \in DOMAIN seen : seen[i].key = key

\* A faulty variant of DedupStep: the key is the basename as it is, not
\* lowercased (line 39 without toLowerCase).
DedupStepCaseSensitive(st, filePath) ==
    LET base == Basename(filePath)
    IN  IF ~MapHas(st.seen, base)
        THEN [st EXCEPT !.seen = Append(@, [key |-> base, value |-> filePath])]
        ELSE [st EXCEPT !.duplicates = Append(@, filePath)]

\* fileSearch.ts:39-47, one iteration of the loop
DedupStep(st, filePath) ==
    LET base == ToLowerCase(Basename(filePath))
    IN  IF ~MapHas(st.seen, base)
        THEN [st EXCEPT !.seen = Append(@, [key |-> base, value |-> filePath])]
        ELSE [st EXCEPT !.duplicates = Append(@, filePath)]

RECURSIVE DedupLoop(_, _)
DedupLoop(st, files) ==
    IF files = <<>> THEN st
    ELSE DedupLoop(DedupStep(st, Head(files)), Tail(files))

\* [...seenBasenames.values()]
MapValues(seen) == [i \in DOMAIN seen |-> seen[i].value]

\* searchForImages(directory, extensions); `disk` is what the directory is
\* on disk.  A failure of fg rejects the returned promise.
SearchForImages(directory, exts, disk) ==
    LET found == Fg(directory, exts, disk)
        st    == DedupLoop([seen |-> <<>>, duplicates |-> <<>>], MatchedFiles(found.files))
    IN  IF ~found.ok
        THEN [ok |-> FALSE, error |-> found.error, files |-> <<>>, duplicates |-> <<>>]
        ELSE [ok |-> TRUE, error |-> "", files |-> MapValues(st.seen),
              duplicates |-> st.duplicates]

----------------------------------------------------------------------------
(* prompts.ts: parseDates and dayDifference                                *)

\* A time value is kept as the record [day, sec] of whole days and
\* remaining seconds since the epoch, 0 <= sec < SecondsPerDay: it stands
\* for (day * SecondsPerDay + sec) * 1000 milliseconds.  Every instant of
\* the model is a local midnight of a zone whose offset is a whole number
\* of seconds, so no time value is rounded, and the quotient of
\* prompts.ts:187 (by 1000 * 60 * 60 * 24 ms) is the quotient of seconds by
\* SecondsPerDay.
SecondsPerDay == 86400

\* days from 1970-01-01 to the proleptic Gregorian date y-m-d, m in 1..12
DaysFromCivil(y, m, d) ==
    LET yy  == IF m <= 2 THEN y - 1 ELSE y
        era == yy \div 400
        yoe == yy - era * 400
        mp  == IF m > 2 THEN m - 3 ELSE m + 9
        doy == (153 * mp + 2) \div 5 + d - 1
        doe == yoe * 365 + yoe \div 4 - yoe \div 100 + doy
    IN  era * 146097 + doe - 719468

\* ECMAScript MakeDay(year, month, date), month zero-based: a month outside
\* 0..11 carries into the year, a date outside the month carries on
MakeDay(year, month, date) ==
    LET ym == year + (month \div 12)
        mn == month % 12
    IN  DaysFromCivil(ym, mn + 1, 1) + date - 1

\* the civil year of day number `day` (days since 1970-01-01)
CivilYear(day) ==
    LET z   == day + 719468
        era == z \div 146097
        doe == z - era * 146097
        yoe == (doe - doe \div 1460 + doe \div 36524 - doe \div 146096) \div 365
        doy == doe - (365 * yoe + yoe \div 4 - yoe \div 100)
        mp  == (5 * doy + 2) \div 153
    IN  yoe + era * 400 + (IF mp < 10 THEN 0 ELSE 1)

\* the day of the week of a day number, 0 for Sunday
Weekday(day) == (day + 4) % 7

\* the first Sunday on or after y-m-d, and the last Sunday of month m
SundayOnOrAfter(y, m, d) ==
    LET x == DaysFromCivil(y, m, d)
    IN  x + ((7 - Weekday(x)) % 7)

LastSunday(y, m) ==
    LET x == (IF m = 12 THEN DaysFromCivil(y + 1, 1, 1) ELSE DaysFromCivil(y, m + 1, 1)) - 1
    IN  x - Weekday(x)

TimeZones == {"UTC", "America/New_York"}

\* the offsets of America/New_York from UTC, in seconds: local mean time
\* (-4:56:02) until noon of 1883-11-18, then -5:00, and -4:00 in daylight
\* time
LmtOffset      == -17762
StandardOffset == -18000
DaylightOffset == -14400

\* the last day of America/New_York whose midnight is in local mean time
LmtLastMidnight == DaysFromCivil(1883, 11, 18)

\* The daylight period of America/New_York in year y, as [from, to]: the
\* local midnights of the days d with from < d <= to are in daylight time
\* (the clock changes at 02:00 of the days from and to).  War time runs
\* from 1942-02-09 to 1945-09-30 across the ends of the years between.  A
\* year without daylight time has the empty period; the rules of 2007 hold
\* for every later year.
NoDaylight == [from |-> 0, to |-> 0]

DaylightPeriod(y) ==
    CASE y < 1918  -> NoDaylight
      [] y \in 1918..1920 -> [from |-> LastSunday(y, 3), to |-> LastSunday(y, 10)]
      [] y \in 1921..1941 -> [from |-> LastSunday(y, 4), to |-> LastSunday(y, 9)]
      [] y = 1942         -> [from |-> DaysFromCivil(1942, 2, 9),
                              to   |-> DaysFromCivil(1942, 12, 31)]
      [] y \in 1943..1944 -> [from |-> DaysFromCivil(y, 1, 1) - 1,
                              to   |-> DaysFromCivil(y, 12, 31)]
      [] y = 1945         -> [from |-> DaysFromCivil(1945, 1, 1) - 1,
                              to   |-> DaysFromCivil(1945, 9, 30)]
      [] y \in 1946..1954 -> [from |-> LastSunday(y, 4), to |-> LastSunday(y, 9)]
      [] y \in 1955..1973 -> [from |-> LastSunday(y, 4), to |-> LastSunday(y, 10)]
      [] y = 1974         -> [from |-> DaysFromCivil(1974, 1, 6), to |-> LastSunday(y, 10)]
      [] y = 1975         -> [from |-> LastSunday(y, 2), to |-> LastSunday(y, 10)]
      [] y \in 1976..1986 -> [from |-> LastSunday(y, 4), to |-> LastSunday(y, 10)]
      [] y \in 1987..2006 -> [from |-> SundayOnOrAfter(y, 4, 1), to |-> LastSunday(y, 10)]
      [] OTHER            -> [from |-> SundayOnOrAfter(y, 3, 8),
                              to   |-> SundayOnOrAfter(y, 11, 1)]

\* the zone's offset from UTC, in seconds, at local midnight of day `day`
UtcOffsetSeconds(zone, day) ==
    IF zone = "UTC" THEN 0
    ELSE IF day <= LmtLastMidnight THEN LmtOffset
    ELSE LET period == DaylightPeriod(CivilYear(day))
         IN  IF period.from < day /\ day <= period.to
             THEN DaylightOffset ELSE StandardOffset

\* the time value of local midnight of day `day`: day * SecondsPerDay minus
\* the offset, and no offset of the model is positive or reaches a day
LocalMidnight(zone, day) == [day |-> day, sec |-> 0 - UtcOffsetSeconds(zone, day)]

\* new Date(year, month, day) in local time: a year of 0..99 means 1900 +
\* year; NaN in any argument gives an Invalid Date
InvalidDate == [valid |-> FALSE, time |-> [day |-> 0, sec |-> 0]]

FullYear(year) == IF 0 <= year /\ year <= 99 THEN 1900 + year ELSE year

NewDate(zone, year, month, day) ==
    IF year.nan \/ month.nan \/ day.nan THEN InvalidDate
    ELSE [valid |-> TRUE,
          time  |-> LocalMidnight(zone, MakeDay(FullYear(year.n), month.n, day.n))]

\* prompts.ts:155-170, the callback of filePaths.map.  parseInt and the
\* Date constructor do not throw, so the catch clause is never entered.
ParseItem(zone, fp) ==
    LET base    == Basename(fp)
        dateStr == Slice(base, 0, 8)
        year    == ParseInt(Slice(dateStr, 0, 4))
        mraw    == ParseInt(Slice(dateStr, 4, 6))
        month   == IF mraw.nan THEN NaN ELSE Num(mraw.n - 1)
        day     == ParseInt(Slice(dateStr, 6, 8))
    IN  [fp |-> fp, dateVal |-> NewDate(zone, year, month, day)]

\* a - b of two time values, as the record [day, sec] standing for
\* day * SecondsPerDay + sec seconds, -SecondsPerDay < sec < SecondsPerDay
TimeDiff(a, b) == [day |-> a.day - b.day, sec |-> a.sec - b.sec]

ZeroDiff == [day |-> 0, sec |-> 0]

\* the sign of a difference: the days decide unless they are 0
Sign(diff) ==
    IF diff.day # 0 THEN (IF diff.day > 0 THEN 1 ELSE -1)
    ELSE IF diff.sec > 0 THEN 1
    ELSE IF diff.sec < 0 THEN -1 ELSE 0

\* A faulty variant of Compare: b - a, which sorts descending.
CompareDescending(a, b) ==
    IF ~a.dateVal.valid \/ ~b.dateVal.valid THEN ZeroDiff
    ELSE TimeDiff(b.dateVal.time, a.dateVal.time)

\* prompts.ts:173, the comparator: a NaN difference counts as 0
Compare(a, b) ==
    IF ~a.dateVal.valid \/ ~b.dateVal.valid THEN ZeroDiff
    ELSE TimeDiff(a.dateVal.time, b.dateVal.time)

\* Array.prototype.sort is a stable sort (ECMAScript 2019): insertion from
\* the left, each item placed behind every item that does not compare
\* greater than it
RECURSIVE InsertItem(_, _)
InsertItem(sorted, x) ==
    IF sorted = <<>> THEN <<x>>
    ELSE IF Sign(Compare(sorted[Len(sorted)], x)) > 0
         THEN Append(InsertItem(SubSeq(sorted, 1, Len(sorted) - 1), x), sorted[Len(sorted)])
         ELSE Append(sorted, x)

RECURSIVE SortItems(_)
SortItems(items) ==
    IF items = <<>> THEN <<>>
    ELSE InsertItem(SortItems(SubSeq(items, 1, Len(items) - 1)), items[Len(items)])

\* parseDates(filePaths), filePaths not empty (prompts.ts:67 returns before)
ParseDates(zone, filePaths) ==
    LET items == SortItems([i \in DOMAIN filePaths |-> ParseItem(zone, filePaths[i])])
    IN  [sortedFiles  |-> [i \in DOMAIN items |-> items[i].fp],
         earliestDate |-> items[1].dateVal,
         latestDate   |-> items[Len(items)].dateVal]

\* Math.ceil(diff / one day) of a difference [day, sec]: the remaining
\* seconds, less than a day, round up to one more day when positive
CeilDays(diff) == diff.day + (IF diff.sec > 0 THEN 1 ELSE 0)

\* dayDifference(d1, d2)
DayDifference(d1, d2) ==
    IF ~d1.valid \/ ~d2.valid THEN NaN
    ELSE Num(CeilDays(TimeDiff(d2.time, d1.time)))

----------------------------------------------------------------------------
(* montageBuilder.ts                                                       *)

Command == <<"m", "o", "n", "t", "a", "g", "e">>

\* A faulty variant of MontageArgs: '+label' is left out.
MontageArgsNoLabel(files, imagesPerRow, resolution, outFile) ==
    LET tileArg     == NumToString(imagesPerRow) \o <<"x">>
        geometryArg == resolution \o <<"+", "0", "+", "0">>
    IN  files \o
        << <<"-", "t", "i", "l", "e">>,
           tileArg,
           <<"-", "g", "e", "o", "m", "e", "t", "r", "y">>,
           geometryArg,
           <<"-", "b", "a", "c", "k", "g", "r", "o", "u", "n", "d">>,
           <<"w", "h", "i", "t", "e">>,
           <<"+", "f", "r", "a", "m", "e">>,
           <<"+", "s", "h", "a", "d", "o", "w">>,
           outFile >>

\* createMontage: the argument list (montageBuilder.ts:22-38)
MontageArgs(files, imagesPerRow, resolution, outFile) ==
    LET tileArg     == NumToString(imagesPerRow) \o <<"x">>
        geometryArg == resolution \o <<"+", "0", "+", "0">>
    IN  files \o
        << <<"-", "t", "i", "l", "e">>,
           tileArg,
           <<"-", "g", "e", "o", "m", "e", "t", "r", "y">>,
           geometryArg,
           <<"-", "b", "a", "c", "k", "g", "r", "o", "u", "n", "d">>,
           <<"w", "h", "i", "t", "e">>,
           <<"+", "f", "r", "a", "m", "e">>,
           <<"+", "s", "h", "a", "d", "o", "w">>,
           <<"+", "l", "a", "b", "e", "l">>,
           outFile >>

\* the exit code of a 'close' event: a number, or null when a signal ended
\* the child
NullCode == [null |-> TRUE, n |-> 0]
Code(n) == [null |-> FALSE, n |-> n]

\* `${code}`
CodeToString(code) ==
    IF code.null THEN <<"n", "u", "l", "l">>
    ELSE IF code.n < 0 THEN <<"-">> \o NumToString(-code.n)
    ELSE NumToString(code.n)

NoReason == [kind |-> "none", message |-> <<>>]

\* the error Node emits when the command cannot be started
SpawnError ==
    [kind |-> "spawn",
     message |-> <<"s", "p", "a", "w", "n", " ">> \o Command \o <<" ", "E", "N", "O", "E", "N", "T">>]

\* new Error(`${command} exited with code ${code}`)
ExitError(command, code) ==
    [kind |-> "Error",
     message |-> command \o <<" ", "e", "x", "i", "t", "e", "d", " ", "w", "i", "t", "h", " ",
                              "c", "o", "d", "e", " ">> \o CodeToString(code)]

\* A promise settles at the first call of resolve or reject; later calls
\* are ignored.
PendingPromise == [state |-> "pending", reason |-> NoReason]
ResolvePromise(p) ==
    IF p.state = "pending" THEN [state |-> "fulfilled", reason |-> NoReason] ELSE p
RejectPromise(p, reason) ==
    IF p.state = "pending" THEN [state |-> "rejected", reason |-> reason] ELSE p

\* montageBuilder.ts:51-53
OnError(p, error) == RejectPromise(p, error)

\* A faulty variant of OnClose: `if (!code)`, which takes null for success.
OnCloseFalsyCode(p, command, code) ==
    IF code.null \/ code.n = 0 THEN ResolvePromise(p)
    ELSE RejectPromise(p, ExitError(command, code))

\* montageBuilder.ts:55-61
OnClose(p, command, code) ==
    IF ~code.null /\ code.n = 0 THEN ResolvePromise(p)
    ELSE RejectPromise(p, ExitError(command, code))

----------------------------------------------------------------------------
(* Inputs                                                                  *)

D20210101 == <<"2", "0", "2", "1", "0", "1", "0", "1">>
D20210102 == <<"2", "0", "2", "1", "0", "1", "0", "2">>
D20210103 == <<"2", "0", "2", "1", "0", "1", "0", "3">>
D20210104 == <<"2", "0", "2", "1", "0", "1", "0", "4">>
D20210110 == <<"2", "0", "2", "1", "0", "1", "1", "0">>
D20211101 == <<"2", "0", "2", "1", "1", "1", "0", "1">>
D20211110 == <<"2", "0", "2", "1", "1", "1", "1", "0">>
D20211301 == <<"2", "0", "2", "1", "1", "3", "0", "1">>
D20220101 == <<"2", "0", "2", "2", "0", "1", "0", "1">>
D20220701 == <<"2", "0", "2", "2", "0", "7", "0", "1">>
D00500101 == <<"0", "0", "5", "0", "0", "1", "0", "1">>
D10000101 == <<"1", "0", "0", "0", "0", "1", "0", "1">>

\* the files met by the scan, at the top of the directory and in its
\* subdirectory s: accepted names, the same name again in the other
\* directory and in another case, a 7-digit prefix, an extension outside
\* the choices, an extension without its dot, accepted names below a dot
\* directory at the top and inside s
SearchPaths ==
    { D20210101 \o DotJpg,                                        \* 20210101.jpg
      <<"s", "/">> \o D20210101 \o DotJpg,                        \* s/20210101.jpg
      <<"s", "/">> \o D20210101 \o <<".", "J", "P", "G">>,        \* s/20210101.JPG
      <<"2", "0", "2", "1", "0", "1", "0">> \o DotJpg,            \* 2021010.jpg
      D20210102 \o <<"x">> \o DotPng,                             \* 20210102x.png
      <<"s", "/">> \o D20210103 \o DotJpeg,                       \* s/20210103.jpeg
      D20210104 \o <<".", "g", "i", "f">>,                        \* 20210104.gif
      <<"s", "/">> \o D20210104 \o <<"p", "n", "g">>,             \* s/20210104png
      <<".", "s", "/">> \o D20210101 \o DotJpg,                   \* .s/20210101.jpg
      <<"s", "/", ".", "t", "/">> \o D20210102 \o DotJpg }        \* s/.t/20210102.jpg

\* file names carrying dates: a tie, a span without and one with the end
\* of daylight time, a summer day of another year, a year below 100, a
\* year of local mean time, a month 13 and the day it carries to
DateNames ==
    { D20210101 \o DotJpg,
      D20210101 \o <<"b">> \o DotJpg,
      D20210110 \o DotJpg,
      D20211101 \o DotJpg,
      D20211110 \o DotJpg,
      D00500101 \o DotJpg,
      D10000101 \o DotJpg,
      D20211301 \o DotJpg,
      D20220101 \o DotJpg,
      D20220701 \o DotJpg }

\* the files of the runs of the whole pipeline
RunPaths ==
    { D20211110 \o DotJpg,
      <<"s", "/">> \o D20211110 \o <<".", "J", "P", "G">>,
      D20211101 \o <<"x">> \o DotPng,
      D20210104 \o <<".", "g", "i", "f">> }

MaxFiles     == 3   \* files in a scanned tree
MaxDateFiles == 3   \* files given to parseDates
MaxRunFiles  == 2   \* files in the tree of a pipeline run
MaxExitCode  == 2   \* largest exit code of the child

\* the sequences without repetition of at most n members of S
SeqsOf(S, n) ==
    {q \in UNION {[1..k -> S] : k \in 0..n} :
        \A i, j \in DOMAIN q : i # j => q[i] # q[j]}

Cwd      == <<"/", "r">>
OtherDir == <<"/", "q">>

\* what the operator may type at the directory prompt, and what
\* fs.existsSync / fs.statSync find there
DirInputs == {OtherDir, <<"/", "n">>, <<"/", "f">>}
InputStatus(input) ==
    CASE input = OtherDir     -> "dir"
      [] input = <<"/", "f">> -> "file"
      [] OTHER                -> "missing"

\* prompts.ts:29-38
ValidateDir(input) ==
    IF InputStatus(input) = "missing" THEN FALSE
    ELSE InputStatus(input) = "dir"

\* prompts.ts:54-59
ValidateExtensions(answer) == Cardinality(answer) >= 1

\* what the operator may type at the images-per-row prompt
PerRowInputs == {<<"2">>, <<"2", "5">>, <<"3", "x">>, <<"0">>, <<"x">>}

\* prompts.ts:90-96
ValidatePerRow(input) ==
    LET val == ParseInt(input)
    IN  ~(val.nan \/ val.n <= 0)

\* prompts.ts:110
ResolutionChoices ==
    { <<"6", "4", "x", "4", "8">>,
      <<"1", "2", "0", "x", "9", "0">>,
      <<"1", "6", "0", "x", "1", "2", "0">>,
      <<"3", "2", "0", "x", "2", "4", "0">> }

\* prompts.ts:121
OutputNames == {<<"i", "m", "a", "g", "e", "-", "g", "r", "i", "d">>}

\* prompts.ts:127
OutputTypes == {DotJpg, DotPng}

\* the exit codes a 'close' event may carry: -2 follows a failed spawn
ExitCodes == {Code(n) : n \in 0..MaxExitCode} \cup {Code(-2), NullCode}

----------------------------------------------------------------------------
(* prompts.ts: runCli, and index.ts                                        *)

envVars     == <<tz, rootStatus, tree>>
searchVars  == <<foundImages, duplicates>>
dateVars    == <<sortedFiles, earliestDate, latestDate, numberOfDays>>
layoutVars  == <<imagesPerRowNum, chosenResolution>>
montageVars == <<outputFile, spawnCount, spawnArgs>>
childVars   == <<child, firstEvent, promise, settleCalls>>

Notice(kind) == [kind |-> kind, err |-> NoReason]

NoEvent == [kind |-> "none", code |-> NullCode]

\* runCli at position p: the environment, what the steps before p have set,
\* and nothing of the steps from p on
StateAt(p, zone, disk, dir, exts, found, cl, lg) ==
    /\ pc = p
    /\ tz = zone
    /\ rootStatus = disk.status
    /\ tree = disk.files
    /\ workingDir = dir
    /\ extensions = exts
    /\ foundImages = found
    /\ duplicates = <<>>
    /\ sortedFiles = <<>>
    /\ earliestDate = InvalidDate
    /\ latestDate = InvalidDate
    /\ numberOfDays = NaN
    /\ imagesPerRowNum = 0
    /\ chosenResolution = <<>>
    /\ outputFile = <<>>
    /\ spawnCount = 0
    /\ spawnArgs = <<>>
    /\ child = [error |-> FALSE, close |-> FALSE]
    /\ firstEvent = NoEvent
    /\ promise = [state |-> "none", reason |-> NoReason]
    /\ settleCalls = 0
    /\ log = lg
    /\ calls = cl
    /\ exitStatus = "running"

\* runCli is about to start, in a directory holding some files
Init ==
    \E zone \in TimeZones, files \in SeqsOf(RunPaths, MaxRunFiles) :
        StateAt("promptCorrectDir", zone, [status |-> "dir", files |-> files],
                <<>>, {}, <<>>, <<>>, <<>>)

\* runCli is about to call searchForImages (prompts.ts:65): any directory
\* status, any tree, any accepted selection of extensions
InitSearch ==
    \E status \in {"dir", "missing", "file"},
       files \in SeqsOf(SearchPaths, MaxFiles),
       exts \in SUBSET ExtensionChoices :
        /\ status # "dir" => files = <<>>
        /\ ValidateExtensions(exts)
        /\ StateAt("search", "UTC", [status |-> status, files |-> files],
                   Cwd, exts, <<>>, <<>>, <<Notice("format")>>)

\* searchForImages has returned (prompts.ts:66): any list of accepted files
\* with distinct names, in any zone
InitDates ==
    \E zone \in TimeZones, names \in SeqsOf(DateNames, MaxDateFiles) :
        /\ names # <<>>
        /\ StateAt("searched", zone, [status |-> "dir", files |-> names],
                   Cwd, {DotJpg}, [i \in DOMAIN names |-> Resolve(Cwd, names[i])],
                   <<"searchForImages">>, <<Notice("format")>>)

\* prompts.ts:13-23
PromptCorrectDir ==
    /\ pc = "promptCorrectDir"
    /\ \E correctDir \in BOOLEAN :
          IF correctDir
          THEN workingDir' = Cwd /\ pc' = "promptExtensions"
          ELSE workingDir' = Cwd /\ pc' = "promptChosenDir"
    /\ UNCHANGED <<envVars, extensions, searchVars, dateVars, layoutVars,
                   montageVars, childVars, log, calls, exitStatus>>

\* prompts.ts:24-41: the prompt returns only an input its validate accepts
PromptChosenDir ==
    /\ pc = "promptChosenDir"
    /\ \E input \in DirInputs :
          /\ ValidateDir(input)
          /\ workingDir' = input
    /\ pc' = "promptExtensions"
    /\ UNCHANGED <<envVars, extensions, searchVars, dateVars, layoutVars,
                   montageVars, childVars, log, calls, exitStatus>>

\* prompts.ts:45-62
PromptExtensions ==
    /\ pc = "promptExtensions"
    /\ \E answer \in SUBSET ExtensionChoices :
          /\ ValidateExtensions(answer)
          /\ extensions' = answer
    /\ log' = Append(log, Notice("format"))
    /\ pc' = "search"
    /\ UNCHANGED <<envVars, workingDir, searchVars, dateVars, layoutVars,
                   montageVars, childVars, calls, exitStatus>>

\* The environment: between the prompt that validated the directory and
\* the scan, the directory is removed, or replaced by a file.
FsChange ==
    /\ pc = "search"
    /\ rootStatus = "dir"
    /\ rootStatus' \in {"missing", "file"}
    /\ tree' = <<>>
    /\ UNCHANGED <<pc, tz, workingDir, extensions, searchVars, dateVars,
                   layoutVars, montageVars, childVars, log, calls, exitStatus>>

\* prompts.ts:65: the call of searchForImages, with the console output of
\* fileSearch.ts:51-55; a rejection leaves runCli
Search ==
    /\ pc = "search"
    /\ LET r == SearchForImages(workingDir, extensions,
                                [status |-> rootStatus, files |-> tree])
       IN  /\ calls' = Append(calls, "searchForImages")
           /\ foundImages' = r.files
           /\ duplicates' = r.duplicates
           /\ log' = IF r.duplicates # <<>> THEN Append(log, Notice("duplicates")) ELSE log
           /\ pc' = IF r.ok THEN "searched" ELSE "rejected"
    /\ UNCHANGED <<envVars, workingDir, extensions, dateVars, layoutVars,
                   montageVars, childVars, exitStatus>>

\* prompts.ts:67
HasNoImages(found) == Len(found) = 0

\* A faulty variant of NoImagesFound: the `return` of line 69 is missing,
\* so parseDates is called with no file and throws at line 176.
NoImagesFoundNoReturn ==
    /\ pc = "searched"
    /\ HasNoImages(foundImages)
    /\ log' = Append(log, Notice("noImages"))
    /\ calls' = Append(calls, "parseDates")
    /\ pc' = "rejected"
    /\ UNCHANGED <<envVars, workingDir, extensions, searchVars, dateVars,
                   layoutVars, montageVars, childVars, exitStatus>>

\* prompts.ts:67-70
NoImagesFound ==
    /\ pc = "searched"
    /\ HasNoImages(foundImages)
    /\ log' = Append(log, Notice("noImages"))
    /\ pc' = "returned"
    /\ UNCHANGED <<envVars, workingDir, extensions, searchVars, dateVars,
                   layoutVars, montageVars, childVars, calls, exitStatus>>

\* prompts.ts:74-81
ParseAndReport ==
    /\ pc = "searched"
    /\ ~HasNoImages(foundImages)
    /\ LET parsedData == ParseDates(tz, foundImages)
       IN  /\ sortedFiles' = parsedData.sortedFiles
           /\ earliestDate' = parsedData.earliestDate
           /\ latestDate' = parsedData.latestDate
           /\ numberOfDays' = DayDifference(parsedData.earliestDate, parsedData.latestDate)
    /\ calls' = Append(calls, "parseDates")
    /\ log' = Append(log, Notice("stats"))
    /\ pc' = "promptImagesPerRow"
    /\ UNCHANGED <<envVars, workingDir, extensions, searchVars, layoutVars,
                   montageVars, childVars, exitStatus>>

\* prompts.ts:84-102
PromptImagesPerRow ==
    /\ pc = "promptImagesPerRow"
    /\ \E input \in PerRowInputs :
          /\ ValidatePerRow(input)
          /\ imagesPerRowNum' = ParseInt(input).n
    /\ log' = Append(log, Notice("rowEstimate"))
    /\ pc' = "promptResolution"
    /\ UNCHANGED <<envVars, workingDir, extensions, searchVars, dateVars,
                   chosenResolution, montageVars, childVars, calls, exitStatus>>

\* prompts.ts:105-113
PromptResolution ==
    /\ pc = "promptResolution"
    /\ chosenResolution' \in ResolutionChoices
    /\ pc' = "promptOutput"
    /\ UNCHANGED <<envVars, workingDir, extensions, searchVars, dateVars,
                   imagesPerRowNum, montageVars, childVars, log, calls, exitStatus>>

\* prompts.ts:116-142 with montageBuilder.ts:16-49: the output prompt
\* returns, createMontage is called and runCommand spawns the child
CreateMontage ==
    /\ pc = "promptOutput"
    /\ \E outputName \in OutputNames, outputType \in OutputTypes :
          /\ outputFile' = Resolve(workingDir, outputName \o outputType)
          /\ spawnArgs' = MontageArgs(sortedFiles, imagesPerRowNum, chosenResolution,
                                      Resolve(workingDir, outputName \o outputType))
    /\ log' = Append(log, Notice("creating"))
    /\ calls' = Append(calls, "createMontage")
    /\ spawnCount' = spawnCount + 1
    /\ promise' = PendingPromise
    /\ pc' = "awaitMontage"
    /\ UNCHANGED <<envVars, workingDir, extensions, searchVars, dateVars,
                   layoutVars, child, firstEvent, settleCalls, exitStatus>>

\* the child emits 'error' (montageBuilder.ts:51-53)
ChildError ==
    /\ spawnCount > 0
    /\ ~child.error
    /\ child' = [child EXCEPT !.error = TRUE]
    /\ promise' = OnError(promise, SpawnError)
    /\ settleCalls' = settleCalls + 1
    /\ firstEvent' = IF firstEvent = NoEvent THEN [kind |-> "error", code |-> NullCode]
                     ELSE firstEvent
    /\ UNCHANGED <<pc, envVars, workingDir, extensions, searchVars, dateVars,
                   layoutVars, montageVars, log, calls, exitStatus>>

\* the child emits 'close' (montageBuilder.ts:55-61); after a failed spawn
\* the code is the negative errno, otherwise an exit code or null
ChildClose ==
    /\ spawnCount > 0
    /\ ~child.close
    /\ \E code \in ExitCodes :
          /\ child.error <=> (~code.null /\ code.n < 0)
          /\ promise' = OnClose(promise, Command, code)
          /\ firstEvent' = IF firstEvent = NoEvent THEN [kind |-> "close", code |-> code]
                           ELSE firstEvent
    /\ child' = [child EXCEPT !.close = TRUE]
    /\ settleCalls' = settleCalls + 1
    /\ UNCHANGED <<pc, envVars, workingDir, extensions, searchVars, dateVars,
                   layoutVars, montageVars, log, calls, exitStatus>>

\* prompts.ts:143: the awaited promise is fulfilled
MontageSucceeded ==
    /\ pc = "awaitMontage"
    /\ promise.state = "fulfilled"
    /\ log' = Append(log, Notice("success"))
    /\ pc' = "returned"
    /\ UNCHANGED <<envVars, workingDir, extensions, searchVars, dateVars,
                   layoutVars, montageVars, childVars, calls, exitStatus>>

\* prompts.ts:144-146: the awaited promise is rejected, the error is caught
MontageFailed ==
    /\ pc = "awaitMontage"
    /\ promise.state = "rejected"
    /\ log' = Append(log, [kind |-> "montageError", err |-> promise.reason])
    /\ pc' = "returned"
    /\ UNCHANGED <<envVars, workingDir, extensions, searchVars, dateVars,
                   layoutVars, montageVars, childVars, calls, exitStatus>>

\* runCli's promise is fulfilled: index.ts:12 has nothing to catch, and the
\* process ends with status 0 once the child, if any, has closed
RunCliResolved ==
    /\ pc = "returned"
    /\ spawnCount = 0 \/ child.close
    /\ exitStatus' = "0"
    /\ pc' = "done"
    /\ UNCHANGED <<envVars, workingDir, extensions, searchVars, dateVars,
                   layoutVars, montageVars, childVars, log, calls>>

\* index.ts:12-15: runCli's promise is rejected
IndexCatch ==
    /\ pc = "rejected"
    /\ log' = Append(log, [kind |-> "errorOccurred",
                           err |-> [kind |-> "ENOTDIR", message |-> <<>>]])
    /\ exitStatus' = "1"
    /\ pc' = "done"
    /\ UNCHANGED <<envVars, workingDir, extensions, searchVars, dateVars,
                   layoutVars, montageVars, childVars, calls>>

Next ==
    \/ PromptCorrectDir
    \/ PromptChosenDir
    \/ PromptExtensions
    \/ FsChange
    \/ Search
    \/ NoImagesFound
    \/ ParseAndReport
    \/ PromptImagesPerRow
    \/ PromptResolution
    \/ CreateMontage
    \/ ChildError
    \/ ChildClose
    \/ MontageSucceeded
    \/ MontageFailed
    \/ RunCliResolved
    \/ IndexCatch

Spec == Init /\ [][Next]_vars

\* searchForImages alone, on every tree of the bounds
SpecSearch == InitSearch /\ [][Search]_vars

\* parseDates and dayDifference alone, on every file list of the bounds
SpecDates == InitDates /\ [][ParseAndReport]_vars

----------------------------------------------------------------------------
(* Properties of searchForImages, under SpecSearch                         *)

\* the files searchForImages deduplicates, in enumeration order
\* (fileSearch.ts:28), recomputed from the state
MatchedNow ==
    MatchedFiles(Fg(workingDir, extensions, [status |-> rootStatus, files |-> tree]).files)

Key(p) == ToLowerCase(Basename(p))

Range(q) == {q[i] : i \in DOMAIN q}

IndexIn(q, x) == CHOOSE i \in DOMAIN q : q[i] = x

\* C1: searchForImages partitions the matched files by case-insensitive
\* basename: for every lowercased basename the first path in enumeration
\* order, and only it, is returned; every later path of that basename is
\* in the reported duplicates and not in the result; no path is both
\* returned and reported; the result keeps the enumeration order.
C1_DedupKeepsFirst ==
    pc = "searched" =>
        LET matched == MatchedNow
            keys    == [i \in DOMAIN matched |-> Key(matched[i])]
            first   == [i \in DOMAIN matched |-> \A j \in 1..(i - 1) : keys[j] # keys[i]]
        IN  /\ \A i \in DOMAIN matched :
                  /\ first[i] =>
                        /\ matched[i] \in Range(foundImages)
                        /\ matched[i] \notin Range(duplicates)
                  /\ ~first[i] =>
                        /\ matched[i] \in Range(duplicates)
                        /\ matched[i] \notin Range(foundImages)
            /\ \A i, j \in DOMAIN foundImages :
                  i # j => Key(foundImages[i]) # Key(foundImages[j])
            /\ Range(foundImages) \cup Range(duplicates) = Range(matched)
            /\ Range(foundImages) \cap Range(duplicates) = {}
            /\ Len(foundImages) + Len(duplicates) = Len(matched)
            /\ \A i, j \in DOMAIN foundImages :
                  i < j => IndexIn(matched, foundImages[i]) < IndexIn(matched, foundImages[j])

\* C1 witness: three matched files share one lowercased basename, one of
\* them in another case; one is returned and two are reported
C1_Witness ==
    /\ pc = "searched"
    /\ Len(MatchedNow) = 3
    /\ Len(foundImages) = 1
    /\ Len(duplicates) = 2
    /\ \E d \in Range(duplicates) : Basename(d) # Basename(foundImages[1])

\* the literal digits, for stating the acceptance rule apart from the
\* model of the regular expression
DecimalDigits == {"0", "1", "2", "3", "4", "5", "6", "7", "8", "9"}

HasDatePrefix(base) ==
    /\ Len(base) >= 8
    /\ \A i \in 1..8 : base[i] \in DecimalDigits

\* the name is the 8 digits, any characters, and then the extension
EndsInExtension(base, ext) ==
    /\ Len(base) >= 8 + Len(ext)
    /\ \A k \in 1..Len(ext) : LowerChar(base[Len(base) - Len(ext) + k]) = ext[k]

Conforms(base, exts) == HasDatePrefix(base) /\ \E e \in exts : EndsInExtension(base, e)

\* C2: every path returned by searchForImages has a basename of 8 leading
\* decimal digits, any characters, and one of the selected extensions in
\* any case; a file of the tree whose basename lacks the prefix or ends in
\* no selected extension is not returned.
C2_OnlyConformingReturned ==
    pc = "searched" =>
        /\ \A p \in Range(foundImages) : Conforms(Basename(p), extensions)
        /\ \A i \in DOMAIN tree :
              ~Conforms(Basename(tree[i]), extensions) =>
                  Resolve(workingDir, tree[i]) \notin Range(foundImages)
        /\ \A p \in Range(foundImages) : \E i \in DOMAIN tree : p = Resolve(workingDir, tree[i])

\* C2 witness: a tree holding a 7-digit name, a name whose extension was
\* not selected and a conforming name; only the conforming one is returned
C2_Witness ==
    /\ pc = "searched"
    /\ Len(tree) = 3
    /\ Len(foundImages) = 1
    /\ \E i \in DOMAIN tree : ~HasDatePrefix(Basename(tree[i]))
    /\ \E i \in DOMAIN tree :
          /\ HasDatePrefix(Basename(tree[i]))
          /\ Conforms(Basename(tree[i]), ExtensionChoices)
          /\ ~Conforms(Basename(tree[i]), extensions)

\* C7 as claimed: a root that is missing or not a directory makes
\* searchForImages signal an error instead of returning, and an empty
\* result without error comes only from a valid directory.
C7_InvalidRootSignalsError ==
    /\ (pc \in {"searched", "rejected"} /\ rootStatus # "dir") => pc = "rejected"
    /\ (pc = "searched" /\ foundImages = <<>>) => rootStatus = "dir"

----------------------------------------------------------------------------
(* Properties of parseDates and dayDifference, under SpecDates             *)

\* the time value parseDates gives a file
TimeOf(p) == ParseItem(tz, p).dateVal.time

\* the order of time values: by days, then by the seconds within the day
NotAfter(s, t) == s.day < t.day \/ (s.day = t.day /\ s.sec <= t.sec)

\* C3: the sortedFiles of parseDates are a reordering of its input in which
\* the parsed dates of adjacent files do not decrease, and files of equal
\* parsed date keep the order they had in the input.
C3_SortedStable ==
    pc = "promptImagesPerRow" =>
        /\ Len(sortedFiles) = Len(foundImages)
        /\ Range(sortedFiles) = Range(foundImages)
        /\ \A i \in 1..(Len(sortedFiles) - 1) :
              NotAfter(TimeOf(sortedFiles[i]), TimeOf(sortedFiles[i + 1]))
        /\ \A i, j \in DOMAIN sortedFiles :
              (i < j /\ TimeOf(sortedFiles[i]) = TimeOf(sortedFiles[j])) =>
                  IndexIn(foundImages, sortedFiles[i]) < IndexIn(foundImages, sortedFiles[j])

\* C3 witness: three files, two of them of equal date, that the sort had
\* to reorder
C3_Witness ==
    /\ pc = "promptImagesPerRow"
    /\ Len(sortedFiles) = 3
    /\ sortedFiles # foundImages
    /\ \E i, j \in DOMAIN sortedFiles :
          i < j /\ TimeOf(sortedFiles[i]) = TimeOf(sortedFiles[j])
    /\ ~NotAfter(TimeOf(sortedFiles[3]), TimeOf(sortedFiles[1]))

\* the local calendar day of a time value that is a local midnight
LocalDayOf(zone, t) ==
    CHOOSE d \in (t.day - 1)..(t.day + 1) : LocalMidnight(zone, d) = t

\* C9 as claimed: dayDifference of the earliest and latest date is the
\* ceiling of their difference in days, 0 when they are equal, never
\* negative, and k when the two dates are k calendar days apart.
C9_DayDifferenceIsCalendarDays ==
    pc = "promptImagesPerRow" =>
        /\ ~numberOfDays.nan
        /\ (numberOfDays.n - (latestDate.time.day - earliestDate.time.day)) * SecondsPerDay
               >= latestDate.time.sec - earliestDate.time.sec
        /\ (numberOfDays.n - 1 - (latestDate.time.day - earliestDate.time.day)) * SecondsPerDay
               < latestDate.time.sec - earliestDate.time.sec
        /\ earliestDate = latestDate => numberOfDays.n = 0
        /\ numberOfDays.n >= 0
        /\ numberOfDays.n = LocalDayOf(tz, latestDate.time) - LocalDayOf(tz, earliestDate.time)

\* the 8 leading digits read positionally
PrefixYear(base)  == 1000 * DigitVal(base[1]) + 100 * DigitVal(base[2])
                     + 10 * DigitVal(base[3]) + DigitVal(base[4])
PrefixMonth(base) == 10 * DigitVal(base[5]) + DigitVal(base[6])
PrefixDay(base)   == 10 * DigitVal(base[7]) + DigitVal(base[8])
PrefixValue(base) == 10000 * PrefixYear(base) + 100 * PrefixMonth(base) + PrefixDay(base)

IsLeapYear(y) == (y % 4 = 0 /\ y % 100 # 0) \/ y % 400 = 0

DaysInMonth(y, m) ==
    IF m = 2 THEN (IF IsLeapYear(y) THEN 29 ELSE 28)
    ELSE IF m \in {4, 6, 9, 11} THEN 30 ELSE 31

IsCalendarDate(base) ==
    /\ PrefixMonth(base) \in 1..12
    /\ PrefixDay(base) \in 1..DaysInMonth(PrefixYear(base), PrefixMonth(base))

\* C10 as claimed: for every accepted basename whose 8 digits denote a
\* calendar date of a year 0000-9999, the parsed date is that year, month
\* and day, so files sorted by parsed date are sorted by their prefix; no
\* parsed date is invalid.
C10_ParsedDateIsPrefixDate ==
    pc = "promptImagesPerRow" =>
        /\ \A p \in Range(foundImages) : ParseItem(tz, p).dateVal.valid
        /\ earliestDate.valid /\ latestDate.valid
        /\ \A p \in Range(foundImages) :
              IsCalendarDate(Basename(p)) =>
                  TimeOf(p) = LocalMidnight(tz, DaysFromCivil(PrefixYear(Basename(p)),
                                                              PrefixMonth(Basename(p)),
                                                              PrefixDay(Basename(p))))
        /\ \A i, j \in DOMAIN sortedFiles :
              (i < j /\ IsCalendarDate(Basename(sortedFiles[i]))
                     /\ IsCalendarDate(Basename(sortedFiles[j]))) =>
                  PrefixValue(Basename(sortedFiles[i])) <= PrefixValue(Basename(sortedFiles[j]))

----------------------------------------------------------------------------
(* Properties of runCli and runCommand, under Spec                         *)

Count(q, x) == Cardinality({i \in DOMAIN q : q[i] = x})

Logged(kind) == \E i \in DOMAIN log : log[i].kind = kind

\* searchForImages has been called and has returned (a rejection of
\* searchForImages leaves runCli with that one call made)
SearchReturned ==
    /\ calls # <<>>
    /\ ~(Len(calls) = 1 /\ (pc = "rejected" \/ exitStatus = "1"))

\* C4: when searchForImages returns no file, runCli reports that no images
\* were found and ends; parseDates and createMontage are never called and
\* no process is spawned.  In every run createMontage is called at most
\* once, and only after searchForImages and parseDates.
C4_LinearPipeline ==
    /\ (SearchReturned /\ foundImages = <<>>) =>
          /\ calls = <<"searchForImages">>
          /\ spawnCount = 0
          /\ pc \in {"searched", "returned", "done"}
          /\ pc # "searched" => log[Len(log)] = Notice("noImages")
          /\ ~Logged("success") /\ ~Logged("creating")
    /\ Count(calls, "createMontage") <= 1
    /\ \A i \in DOMAIN calls :
          calls[i] = "createMontage" =>
              /\ i = 3
              /\ calls[1] = "searchForImages"
              /\ calls[2] = "parseDates"
    /\ spawnCount = Count(calls, "createMontage")

\* C4 witness: a run over a directory holding two files of which none is
\* returned has ended with the notice
C4_Witness ==
    /\ pc = "done"
    /\ exitStatus = "0"
    /\ rootStatus = "dir"
    /\ Len(tree) = 2
    /\ foundImages = <<>>
    /\ Logged("noImages")

StartsWith(q, prefix) ==
    /\ Len(q) >= Len(prefix)
    /\ SubSeq(q, 1, Len(prefix)) = prefix

\* C5: whatever the order of the child's 'error' and 'close' events, the
\* promise of runCommand is settled by the first of them and stays as that
\* event settled it: fulfilled only if the first event is a 'close' with
\* code 0; rejected with an error naming the command and the code if it is
\* a 'close' with another code or null; rejected with the spawn error if
\* it is an 'error'.
C5_PromiseSettledByFirstEvent ==
    /\ firstEvent = NoEvent <=> promise.state \in {"none", "pending"}
    /\ settleCalls = (IF child.error THEN 1 ELSE 0) + (IF child.close THEN 1 ELSE 0)
    /\ promise.state = "fulfilled" <=>
          (firstEvent.kind = "close" /\ firstEvent.code = Code(0))
    /\ (firstEvent.kind = "close" /\ firstEvent.code # Code(0)) =>
          /\ promise.state = "rejected"
          /\ promise.reason.kind = "Error"
          /\ StartsWith(promise.reason.message, <<"m", "o", "n", "t", "a", "g", "e", " ">>)
          /\ EndsWith(promise.reason.message,
                      <<" ">> \o (IF firstEvent.code.null THEN <<"n", "u", "l", "l">>
                                  ELSE NumToString(firstEvent.code.n)))
    /\ firstEvent.kind = "error" =>
          /\ promise.state = "rejected"
          /\ promise.reason = SpawnError

\* C5 witness: the spawn has failed: 'error' came first, 'close' with the
\* negative errno after it, both listeners have called reject, and the
\* promise is rejected with the spawn error
C5_Witness ==
    /\ settleCalls = 2
    /\ child.error /\ child.close
    /\ firstEvent.kind = "error"
    /\ promise = [state |-> "rejected", reason |-> SpawnError]

\* C6 as claimed: when the child exits with a code other than 0 or cannot
\* be spawned, the failure is reported with its reason, the success notice
\* is never printed, and the failure is fatal for the run: runCli's promise
\* is rejected, index.ts:12-15 catches it and the process exits with 1.
\* The success notice is printed only after the child has closed with 0.
C6_CompositionFailureIsFatal ==
    /\ (pc \in {"returned", "done"} /\ promise.state = "rejected") =>
          /\ \E i \in DOMAIN log : log[i] = [kind |-> "montageError", err |-> promise.reason]
          /\ ~Logged("success")
          /\ pc = "done" => exitStatus = "1"
    /\ Logged("success") => (child.close /\ firstEvent = [kind |-> "close", code |-> Code(0)])

\* C8: one call of createMontage spawns exactly one process, and none
\* again whatever happens to it; its arguments are the sorted files in
\* their order, then -tile Nx, -geometry WxH+0+0, -background white, +frame,
\* +shadow, +label, and the output path last.
C8_OneSpawnWithArguments ==
    /\ spawnCount <= 1
    /\ spawnCount = 1 =>
          LET n == Len(sortedFiles)
          IN  /\ Len(spawnArgs) = n + 10
              /\ SubSeq(spawnArgs, 1, n) = sortedFiles
              /\ spawnArgs[n + 1] = <<"-", "t", "i", "l", "e">>
              /\ spawnArgs[n + 2] = NumToString(imagesPerRowNum) \o <<"x">>
              /\ imagesPerRowNum = 25 => spawnArgs[n + 2] = <<"2", "5", "x">>
              /\ spawnArgs[n + 3] = <<"-", "g", "e", "o", "m", "e", "t", "r", "y">>
              /\ spawnArgs[n + 4] = chosenResolution \o <<"+", "0", "+", "0">>
              /\ spawnArgs[n + 5] = <<"-", "b", "a", "c", "k", "g", "r", "o", "u", "n", "d">>
              /\ spawnArgs[n + 6] = <<"w", "h", "i", "t", "e">>
              /\ spawnArgs[n + 7] = <<"+", "f", "r", "a", "m", "e">>
              /\ spawnArgs[n + 8] = <<"+", "s", "h", "a", "d", "o", "w">>
              /\ spawnArgs[n + 9] = <<"+", "l", "a", "b", "e", "l">>
              /\ spawnArgs[n + 10] = outputFile
              /\ outputFile # <<>>
              /\ imagesPerRowNum > 0
              /\ chosenResolution \in ResolutionChoices

\* C8 witness: a run that sorted two files into another order has spawned
\* its process with 25 images per row, the process has failed and the run
\* has ended
C8_Witness ==
    /\ spawnCount = 1
    /\ Len(sortedFiles) = 2
    /\ sortedFiles # foundImages
    /\ imagesPerRowNum = 25
    /\ promise.state = "rejected"
    /\ pc = "done"

====
